---- MODULE Spec2Model ----
(***************************************************************************)
(* RunSafe gateway: the PII detection and enforcement engine               *)
(* (docker/gateway/pii-detector.js, class PIIDetector) and the policy      *)
(* endpoint of the gateway server that changes the enforcement mode.       *)
(*                                                                         *)
(* Strings of the scanned documents are sequences of one-character         *)
(* strings.  Confidence scores and thresholds are hundredths (0.75 is 75). *)
(* A JSON value is a record [t, s, items]: t is "str", "num", "null",      *)
(* "arr" or "obj"; s is the characters of a string or number; items is     *)
(* the entries [k, val] of an object in insertion order, or the elements   *)
(* of an array (their k is unused).  Objects live in a heap, addressed by  *)
(* reference, so that aliasing and in-place writes can be told apart from  *)
(* copies.                                                                 *)
(*                                                                         *)
(* Spec is the gateway: the detector is constructed from the policy file,  *)
(* then bodies are scanned and enforced and the mode endpoint is called.   *)
(* SpecPure is the detector's two helper methods, calculateConfidence and  *)
(* redactText, called directly on inputs longer and more varied than the   *)
(* matches the gateway's bodies hold.  SpecServer is the proxy: several    *)
(* exchanges in flight, each going through the PII middleware, the proxy   *)
(* handlers and the finish handler, while the mode endpoint is called.     *)
(***************************************************************************)
EXTENDS Integers, Sequences, FiniteSets, TLC

VARIABLES policyFile, policy, patterns, heap, data, violations, result, lastOp,
          call, ret, official, inflight, running

vars == <<policyFile, policy, patterns, heap, data, violations, result, lastOp,
          call, ret, official, inflight, running>>

------------------------------------------------------------------------------
(* Bounds of the model *)

\* longest string leaf of a scanned document
MaxLen == 2

\* longest violation list handed to applyEnforcement by a direct caller
MaxViolations == 1

\* longest match handed to calculateConfidence by a direct caller
MaxMatchLen == 16

\* longest text handed to redactText by a direct caller
MaxRedactLen == 3

------------------------------------------------------------------------------
(* JavaScript values *)

Undefined == "undefined"

\* the values of a string-typed field that `x || dflt` replaces by dflt
Falsy(x) == x \in {Undefined, ""}

OrElse(x, dflt) == IF Falsy(x) THEN dflt ELSE x

Null == [null |-> TRUE, v |-> <<>>]

Some(s) == [null |-> FALSE, v |-> s]

NullPath == "<null>"

Str(s) == [t |-> "str", s |-> s, items |-> <<>>]

Num(s) == [t |-> "num", s |-> s, items |-> <<>>]

JsonNull == [t |-> "null", s |-> <<>>, items |-> <<>>]

JsonTrue == [t |-> "bool", s |-> <<"true">>, items |-> <<>>]

Entry(key, value) == [k |-> key, val |-> value]

Arr(elements) ==
  [t |-> "arr", s |-> <<>>,
   items |-> [i \in 1..Len(elements) |-> Entry("", elements[i])]]

Obj(entries) == [t |-> "obj", s |-> <<>>, items |-> entries]

\* typeof x === 'object' && x !== null
IsObject(x) == x.t \in {"arr", "obj"}

------------------------------------------------------------------------------
(* Characters and regular expressions *)

Letters == {"a", "b"}

Digits == {"1"}

Punct == {"-"}

Alphabet == Letters \cup Digits \cup Punct

\* the members of [A-Za-z0-9] that the model's strings hold: the characters
\* of the scanned strings, a capital and a letter used as replacement_char
Alnum == Letters \cup Digits \cup {"B", "x"}

\* /[A-Za-z0-9]/
IsAlnum(c) == c \in Alnum

\* the declared patterns: a regex is a sequence of character classes (a
\* fixed-width expression such as [A-Z]\d{7}); valid is whether new RegExp
\* accepts the source
PatternConfig(name) ==
  CASE name = "email" ->
         [regex |-> <<Letters>>, valid |-> TRUE, category |-> "contact",
          risk_level |-> "low", examples |-> <<>>]
    [] name = "eu_passport" ->
         [regex |-> <<Letters, Digits>>, valid |-> TRUE, category |-> "identifier",
          risk_level |-> "medium", examples |-> << <<"b", "1">> >>]
    [] name = "credit_card" ->
         [regex |-> <<Digits>>, valid |-> TRUE, category |-> "financial",
          risk_level |-> "high", examples |-> <<>>]
    [] OTHER ->
         [regex |-> <<>>, valid |-> FALSE, category |-> "other",
          risk_level |-> "low", examples |-> <<>>]

\* does the regex match text at offset i (1-based)
MatchesAt(text, regex, i) ==
  /\ i + Len(regex) - 1 <= Len(text)
  /\ \A j \in 1..Len(regex) : text[i + j - 1] \in regex[j]

RECURSIVE MatchFrom(_, _, _)
\* text.match(pattern) with the g flag: the leftmost non-overlapping matches
MatchFrom(text, regex, i) ==
  IF i > Len(text) \/ Len(regex) = 0 THEN <<>>
  ELSE IF MatchesAt(text, regex, i)
       THEN <<SubSeq(text, i, i + Len(regex) - 1)>> \o MatchFrom(text, regex, i + Len(regex))
       ELSE MatchFrom(text, regex, i + 1)

Match(text, regex) == MatchFrom(text, regex, 1)

IsPrefixAt(text, s, i) ==
  /\ i + Len(s) - 1 <= Len(text)
  /\ \A j \in 1..Len(s) : text[i + j - 1] = s[j]

\* text.includes(s)
Includes(text, s) == \E i \in 1..(Len(text) + 1) : IsPrefixAt(text, s, i)

\* text.indexOf(s), 0-based, -1 when absent
IndexOf(text, s) ==
  IF Includes(text, s)
  THEN (CHOOSE i \in 1..(Len(text) + 1) :
          /\ IsPrefixAt(text, s, i)
          /\ \A j \in 1..(i - 1) : ~IsPrefixAt(text, s, j)) - 1
  ELSE -1

RECURSIVE ReplaceFrom(_, _, _, _)
\* text.replace(new RegExp(escapeRegex(s), 'g'), r): every non-overlapping
\* occurrence of the literal s, left to right (r holds no $ sequence: the
\* alphabet has no $)
ReplaceFrom(text, s, r, i) ==
  IF i > Len(text) THEN <<>>
  ELSE IF Len(s) > 0 /\ IsPrefixAt(text, s, i)
       THEN r \o ReplaceFrom(text, s, r, i + Len(s))
       ELSE <<text[i]>> \o ReplaceFrom(text, s, r, i + 1)

ReplaceAll(text, s, r) == ReplaceFrom(text, s, r, 1)

Max(a, b) == IF a >= b THEN a ELSE b

SeqContains(seq, x) == \E i \in 1..Len(seq) : seq[i] = x

RECURSIVE Filter(_, _)
\* violations.filter(v => v.risk_level === risk)
Filter(vs, risk) ==
  IF vs = <<>> THEN <<>>
  ELSE (IF Head(vs).risk_level = risk THEN <<Head(vs)>> ELSE <<>>) \o Filter(Tail(vs), risk)

------------------------------------------------------------------------------
(* PIIDetector: scanning *)

\* String.prototype.toLowerCase on one character
LowerChar(c) == IF c = "A" THEN "a" ELSE IF c = "B" THEN "b" ELSE c

\* the JSON values true and false of a policy setting
JsTrue == "true"

JsFalse == "false"

toLowerCase(text) == [i \in 1..Len(text) |-> LowerChar(text[i])]

\* faulty variant: any value but false and a missing one enables detection
isEnabled_Truthy(pol) == pol.pii_detection.enabled \notin {JsFalse, Undefined}

\* this.policy?.pii_detection?.enabled === true
isEnabled(pol) == pol.pii_detection.enabled = JsTrue

\* the redaction settings in force: the policy's, or the built-in ones;
\* replacement_char is a string, kept as the sequence of its characters
redactionConfig(pol) ==
  IF pol.pii_detection.redaction.present
  THEN pol.pii_detection.redaction
  ELSE [present |-> TRUE, replacement_char |-> <<"*">>, preserve_format |-> TRUE,
        min_length |-> 3]

\* faulty variant: only letters are replaced, digits pass through
redactChar_LettersOnly(c, replacement) ==
  IF c \in Letters \cup {"B", "x"} THEN replacement ELSE <<c>>

\* what replace(/[A-Za-z0-9]/g, replacement) puts in the place of one
\* character (replacement holds no $ sequence)
redactChar(c, replacement) == IF IsAlnum(c) THEN replacement ELSE <<c>>

RECURSIVE redactFrom(_, _, _)
\* text.replace(/[A-Za-z0-9]/g, replacement) from the i-th character on
redactFrom(text, replacement, i) ==
  IF i > Len(text) THEN <<>>
  ELSE redactChar(text[i], replacement) \o redactFrom(text, replacement, i + 1)

RECURSIVE RepeatStr(_, _)
\* s.repeat(n)
RepeatStr(s, n) == IF n <= 0 THEN <<>> ELSE s \o RepeatStr(s, n - 1)

\* faulty variant: preserve_format is ignored, the text is always masked
redactText_IgnoreFormat(pol, text) ==
  LET cfg == redactionConfig(pol) IN
  RepeatStr(cfg.replacement_char, Max(Len(text), cfg.min_length))

redactText(pol, text) ==
  LET cfg == redactionConfig(pol) IN
  IF cfg.preserve_format
  THEN redactFrom(text, cfg.replacement_char, 1)
  ELSE RepeatStr(cfg.replacement_char, Max(Len(text), cfg.min_length))

\* faulty variant: the length tiers of financial matches start one character
\* late (> where the code has >=)
calculateConfidence_LateTiers(match, config) ==
  LET base ==
        CASE config.category = "financial" ->
               IF Len(match) > 15 THEN 95
               ELSE IF Len(match) > 10 THEN 90
               ELSE 80
          [] config.category = "identifier" -> 85
          [] config.category = "contact" -> 75
          [] config.category = "special_category" -> 90
          [] OTHER -> 80
  IN IF SeqContains(config.examples, match) THEN 99 ELSE base

\* in hundredths; category and examples come from the pattern's config
calculateConfidence(match, config) ==
  LET base ==
        CASE config.category = "financial" ->
               IF Len(match) >= 15 THEN 95
               ELSE IF Len(match) >= 10 THEN 90
               ELSE 80
          [] config.category = "identifier" -> 85
          [] config.category = "contact" -> 75
          [] config.category = "special_category" -> 90
          [] OTHER -> 80
      boosted == IF SeqContains(config.examples, match) THEN 99 ELSE base
  IN IF boosted <= 100 THEN boosted ELSE 100

\* this.policy.pii_detection?.confidence_threshold || 0.8  (absent is -1)
threshold(pol) ==
  LET t == pol.pii_detection.confidence_threshold IN
  IF t = -1 \/ t = 0 THEN 80 ELSE t

RECURSIVE compile_AbortOnError(_)
\* faulty variant: the first regex that fails to compile ends the loop
compile_AbortOnError(names) ==
  IF names = <<>> \/ ~PatternConfig(Head(names)).valid THEN <<>>
  ELSE <<Head(names)>> \o compile_AbortOnError(Tail(names))

RECURSIVE compile(_)
\* compilePatterns: the declared patterns whose regex compiles, in
\* declaration order
compile(names) ==
  IF names = <<>> THEN <<>>
  ELSE (IF PatternConfig(Head(names)).valid THEN <<Head(names)>> ELSE <<>>)
       \o compile(Tail(names))

compilePatterns(pol) == compile(pol.pii_detection.patterns)

\* the violation scanText builds for one match of one pattern
Violation(pol, name, text, match, source) ==
  LET config == PatternConfig(name) IN
  [type |-> name,
   category |-> config.category,
   risk_level |-> config.risk_level,
   detected_text |-> match,
   redacted_text |-> redactText(pol, match),
   confidence_score |-> calculateConfidence(match, config),
   field_path |-> NullPath,
   data_source |-> source,
   position |-> IndexOf(text, match)]

\* faulty variant: no violation is dropped
KeepAboveThreshold_KeepAll(vs, t) == vs

RECURSIVE KeepAboveThreshold(_, _)
\* if (violation.confidence_score >= threshold) violations.push(violation)
KeepAboveThreshold(vs, t) ==
  IF vs = <<>> THEN <<>>
  ELSE (IF Head(vs).confidence_score >= t THEN <<Head(vs)>> ELSE <<>>)
       \o KeepAboveThreshold(Tail(vs), t)

RECURSIVE scanPatterns(_, _, _, _)
\* the loop over this.patterns, in insertion order
scanPatterns(pol, pats, text, source) ==
  IF pats = <<>> THEN <<>>
  ELSE LET matches == Match(text, PatternConfig(Head(pats)).regex)
           found == [i \in 1..Len(matches) |->
                       Violation(pol, Head(pats), text, matches[i], source)]
       IN KeepAboveThreshold(found, threshold(pol))
          \o scanPatterns(pol, Tail(pats), text, source)

\* faulty variant: the phrases are compared without lower-casing
isWhitelisted_CaseSensitive(pol, text) ==
  \E i \in 1..Len(pol.pii_detection.whitelist) :
     Includes(text, pol.pii_detection.whitelist[i])

\* whitelistPhrases.some(phrase => text.toLowerCase().includes(phrase.toLowerCase()))
isWhitelisted(pol, text) ==
  \E i \in 1..Len(pol.pii_detection.whitelist) :
     Includes(toLowerCase(text), toLowerCase(pol.pii_detection.whitelist[i]))

scanText(pol, pats, text, source) ==
  IF ~isEnabled(pol) \/ text = <<>> THEN <<>>
  ELSE IF isWhitelisted(pol, text) THEN <<>>
  ELSE scanPatterns(pol, pats, text, source)

\* `${fieldPath}[${index}]`, index 0-based
IndexPath(fieldPath, i) == fieldPath \o "[" \o ToString(i - 1) \o "]"

\* faulty variant: the key is dotted under an empty parent path too
KeyPath_AlwaysDotted(fieldPath, key) == fieldPath \o "." \o key

\* fieldPath ? `${fieldPath}.${key}` : key
KeyPath(fieldPath, key) == IF fieldPath = "" THEN key ELSE fieldPath \o "." \o key

RECURSIVE scanValue(_, _, _, _, _)
RECURSIVE scanItems(_, _, _, _, _, _)
\* the elements or entries of a container from the i-th on
scanItems(pol, pats, value, fieldPath, source, i) ==
  IF i > Len(value.items) THEN <<>>
  ELSE (IF value.t = "arr"
        THEN scanValue(pol, pats, value.items[i].val, IndexPath(fieldPath, i), source)
        ELSE scanValue(pol, pats, value.items[i].val,
                       KeyPath(fieldPath, value.items[i].k), source))
       \o scanItems(pol, pats, value, fieldPath, source, i + 1)

scanValue(pol, pats, value, fieldPath, source) ==
  IF value.t = "str"
  THEN LET found == scanText(pol, pats, value.s, source) IN
       [i \in 1..Len(found) |-> [found[i] EXCEPT !.field_path = fieldPath]]
  ELSE IF IsObject(value)
  THEN scanItems(pol, pats, value, fieldPath, source, 1)
  ELSE <<>>

scanObject(pol, pats, obj, source) ==
  IF ~isEnabled(pol) \/ ~IsObject(obj) THEN <<>>
  ELSE scanValue(pol, pats, obj, "", source)

------------------------------------------------------------------------------
(* PIIDetector: enforcement *)

\* faulty variant: a missing mode falls back to block
getEnforcementMode_DefaultBlock(pol) ==
  IF pol.gdpr.present THEN OrElse(pol.gdpr.mode, "block") ELSE "block"

\* this.policy?.gdpr?.mode || 'monitor'
getEnforcementMode(pol) ==
  IF pol.gdpr.present THEN OrElse(pol.gdpr.mode, "monitor") ELSE "monitor"

NoActions == [on_high |-> Undefined, on_medium |-> Undefined, on_low |-> Undefined]

\* this.policy?.gdpr?.actions || {}
getActions(pol) == IF pol.gdpr.present THEN pol.gdpr.actions ELSE NoActions

RECURSIVE Join(_, _)
\* parts.join(sep), kept as the sequence of its pieces; each part is itself
\* a sequence of pieces
Join(parts, sep) ==
  IF parts = <<>> THEN <<>>
  ELSE IF Len(parts) = 1 THEN parts[1]
  ELSE parts[1] \o <<sep>> \o Join(Tail(parts), sep)

\* violations.map(v => v.type).join(', ')
Types(vs) == Join([i \in 1..Len(vs) |-> <<vs[i].type>>], ", ")

\* faulty variant: the summary leaves the risk levels out
TypeAndRisk_TypesOnly(vs) == Types(vs)

\* violations.map(v => `${v.type} (${v.risk_level})`).join(', ')
TypeAndRisk(vs) ==
  Join([i \in 1..Len(vs) |-> <<vs[i].type, " (", vs[i].risk_level, ")">>], ", ")

RECURSIVE replaceInObject(_, _, _)
replaceInObject(obj, searchText, replaceText) ==
  CASE obj.t = "str" -> Str(ReplaceAll(obj.s, searchText, replaceText))
    [] obj.t = "arr" ->
         Arr([i \in 1..Len(obj.items) |->
                replaceInObject(obj.items[i].val, searchText, replaceText)])
    [] obj.t = "obj" ->
         Obj([i \in 1..Len(obj.items) |->
                Entry(obj.items[i].k,
                      replaceInObject(obj.items[i].val, searchText, replaceText))])
    [] OTHER -> obj

RECURSIVE replaceViolations(_, _, _)
\* the forEach of sanitizeData over the violations, on the cloned value
replaceViolations(pol, value, vs) ==
  IF vs = <<>> THEN value
  ELSE LET v == Head(vs)
           next == IF v.field_path \notin {NullPath, ""} /\ v.detected_text # <<>>
                   THEN replaceInObject(value, v.detected_text,
                          IF v.redacted_text # <<>> THEN v.redacted_text
                          ELSE redactText(pol, v.detected_text))
                   ELSE value
       IN replaceViolations(pol, next, Tail(vs))

\* faulty variant: the caller's object is rewritten in place
sanitizeData_InPlace(pol, h, ref, vs) ==
  IF ~IsObject(h[ref]) THEN [ref |-> ref, heap |-> h]
  ELSE [ref |-> ref, heap |-> [h EXCEPT ![ref] = replaceViolations(pol, h[ref], vs)]]

\* returns the reference of the sanitized value and the heap after the call:
\* a value that is no object comes back as it is; an object is cloned
\* (JSON.parse(JSON.stringify(data))) and the clone is rewritten
sanitizeData(pol, h, ref, vs) ==
  IF ~IsObject(h[ref]) THEN [ref |-> ref, heap |-> h]
  ELSE [ref |-> Len(h) + 1, heap |-> Append(h, replaceViolations(pol, h[ref], vs))]

\* faulty variant: the block is recorded without its reason
blockForRisk_NoReason(riskLevel, vs, r) ==
  [r EXCEPT !.result.action = "block",
            !.result.appliedActions = Append(@, "blocked_" \o riskLevel \o "_risk")]

\* case 'block' of applyActionForRisk
blockForRisk(riskLevel, vs, r) ==
  [r EXCEPT !.result.action = "block",
            !.result.blockReason =
                Some(<<"Blocked due to ", riskLevel, " risk PII: ">> \o Types(vs)),
            !.result.appliedActions = Append(@, "blocked_" \o riskLevel \o "_risk")]

\* faulty variant: an action that is not recognized warns
unknownAction_Warns(riskLevel, vs, r) ==
  [r EXCEPT !.result.warnings =
                Append(@, <<"Warning: ", riskLevel, " risk PII detected: ">> \o Types(vs)),
            !.result.appliedActions = Append(@, "default_action_" \o riskLevel \o "_risk")]

\* the default case of applyActionForRisk
unknownAction(riskLevel, vs, r) ==
  [r EXCEPT !.result.appliedActions = Append(@, "default_action_" \o riskLevel \o "_risk")]

\* result and heap after one per-risk action; r is [result, heap]
applyActionForRisk(pol, riskLevel, action, ref, vs, r) ==
  CASE action = "block" -> blockForRisk(riskLevel, vs, r)
    [] action \in {"redact", "sanitize"} ->
         LET s == sanitizeData(pol, r.heap, ref, vs) IN
         [r EXCEPT !.heap = s.heap,
                   !.result.sanitizedData = s.ref,
                   !.result.modified = TRUE,
                   !.result.appliedActions =
                       Append(@, "sanitized_" \o riskLevel \o "_risk")]
    [] action = "warn" ->
         [r EXCEPT !.result.warnings =
                       Append(@, <<"Warning: ", riskLevel, " risk PII detected: ">>
                                 \o Types(vs)),
                   !.result.appliedActions =
                       Append(@, "warned_" \o riskLevel \o "_risk")]
    [] action = "allow_with_note" ->
         [r EXCEPT !.result.warnings =
                       Append(@, <<"Note: ", riskLevel, " risk PII detected but allowed: ">>
                                 \o Types(vs)),
                   !.result.appliedActions =
                       Append(@, "noted_" \o riskLevel \o "_risk")]
    [] OTHER -> unknownAction(riskLevel, vs, r)

\* the result object applyEnforcement starts from
InitialResult(ref) ==
  [action |-> "allow", modified |-> FALSE, sanitizedData |-> ref,
   blockReason |-> Null, warnings |-> <<>>, appliedActions |-> <<>>]

\* faulty variant: every bucket defaults to a note
DefaultAction_Permissive(riskLevel) == "allow_with_note"

\* actions.on_high || 'block', actions.on_medium || 'redact',
\* actions.on_low || 'allow_with_note'
DefaultAction(riskLevel) ==
  CASE riskLevel = "high" -> "block"
    [] riskLevel = "medium" -> "redact"
    [] OTHER -> "allow_with_note"

\* faulty variant: the mode acts on an empty violation list too
modeApplies_IgnoreLength(mode, m, vs) == mode = m

\* mode === m && violations.length > 0
modeApplies(mode, m, vs) == mode = m /\ vs # <<>>

\* faulty variant: a block does not stop the later buckets
notBlocked_Always(r) == TRUE

\* result.action !== 'block'
notBlocked(r) == r.result.action # "block"

\* the per-risk fallback of applyEnforcement, high bucket first
applyRiskActions(pol, h, ref, vs) ==
  LET actions == getActions(pol)
      high == Filter(vs, "high")
      medium == Filter(vs, "medium")
      low == Filter(vs, "low")
      r0 == [result |-> InitialResult(ref), heap |-> h]
      r1 == IF high # <<>>
            THEN applyActionForRisk(pol, "high", OrElse(actions.on_high, DefaultAction("high")), ref, high, r0)
            ELSE r0
      r2 == IF medium # <<>> /\ notBlocked(r1)
            THEN applyActionForRisk(pol, "medium", OrElse(actions.on_medium, DefaultAction("medium")), ref, medium, r1)
            ELSE r1
      r3 == IF low # <<>> /\ notBlocked(r2)
            THEN applyActionForRisk(pol, "low", OrElse(actions.on_low, DefaultAction("low")), ref, low, r2)
            ELSE r2
  IN r3

\* returns [result, heap]: the EnforcementResult and the heap after the call
applyEnforcement(pol, h, ref, vs) ==
  LET mode == getEnforcementMode(pol)
      result0 == InitialResult(ref)
  IN
  IF mode = "monitor"
  THEN [result |-> [result0 EXCEPT !.appliedActions = <<"logged_for_monitoring">>],
        heap |-> h]
  ELSE IF modeApplies(mode, "block", vs)
  THEN [result |-> [result0 EXCEPT
                      !.action = "block",
                      !.blockReason = Some(<<"Blocked by ", mode, " mode - PII detected: ">>
                                           \o TypeAndRisk(vs)),
                      !.appliedActions = <<"blocked_by_" \o mode \o "_mode">>],
        heap |-> h]
  ELSE IF modeApplies(mode, "sanitize", vs)
  THEN LET s == sanitizeData(pol, h, ref, vs) IN
       [result |-> [result0 EXCEPT
                      !.sanitizedData = s.ref,
                      !.modified = TRUE,
                      !.appliedActions = <<"sanitized_by_" \o mode \o "_mode">>],
        heap |-> s.heap]
  ELSE IF modeApplies(mode, "warn", vs)
  THEN [result |-> [result0 EXCEPT
                      !.warnings = << <<"Warning by ", mode, " mode - PII detected: ">>
                                      \o TypeAndRisk(vs) >>,
                      !.appliedActions = <<"warned_by_" \o mode \o "_mode">>],
        heap |-> h]
  ELSE IF vs # <<>>
  THEN applyRiskActions(pol, h, ref, vs)
  ELSE [result |-> result0, heap |-> h]

------------------------------------------------------------------------------
(* The inputs the model draws from *)

RECURSIVE TextsOfLen(_)
TextsOfLen(n) ==
  IF n = 0 THEN {<<>>}
  ELSE {Append(t, c) : t \in TextsOfLen(n - 1), c \in Alphabet}

Texts == UNION {TextsOfLen(n) : n \in 0..MaxLen}

ShortTexts == {<<"a">>, <<"1">>}

\* the messages of the bodies that hold an array as well
LongTexts == {t \in Texts : Len(t) >= 2 /\ t[1] = "b"}

\* request and response bodies
Documents ==
  {Obj(<<Entry("message", Str(t))>>) : t \in Texts}
  \cup {Obj(<<Entry("", Str(t))>>) : t \in ShortTexts}
  \cup {Obj(<<Entry("message", Str(t)),
              Entry("items", Arr(<<Num(<<"1">>), Str(u), JsonNull, JsonTrue>>))>>) :
          t \in LongTexts, u \in ShortTexts}
  \cup {Arr(<<Str(t)>>) : t \in ShortTexts}
  \cup {Obj(<<Entry("guest", Obj(<<Entry("email", Str(t))>>)),
              Entry("rooms", Arr(<<Obj(<<Entry("card", Str(u))>>)>>))>>) :
          t \in ShortTexts, u \in ShortTexts}
  \cup {Obj(<<Entry("message", Str(<<"B", "1">>))>>)}
  \cup {Str(<<"a", "1">>), JsonNull}

DeclaredPatterns == <<"email", "eu_passport", "credit_card">>

NoRedaction ==
  [present |-> FALSE, replacement_char |-> <<"*">>, preserve_format |-> TRUE,
   min_length |-> 3]

BasePii ==
  [enabled |-> JsTrue, confidence_threshold |-> 75, patterns |-> DeclaredPatterns,
   whitelist |-> <<>>, redaction |-> NoRedaction]

\* pattern maps in which one regex does not compile, at each position
BrokenPatterns ==
  {<<"broken", "email", "credit_card">>,
   <<"email", "broken", "credit_card">>,
   <<"email", "credit_card", "broken">>}

\* a pattern map that declares the pattern with the shorter matches first
ShorterFirst == <<"credit_card", "eu_passport">>

\* values of enabled other than true: false, none, the string "true", 1
NotTrue == {JsFalse, Undefined, "'true'", "1"}

\* the pii_detection sections of the policy files: the base one and the
\* ones that differ from it in one setting
PiiSections ==
  {[BasePii EXCEPT !.confidence_threshold = t] : t \in {-1, 0, 75, 90, 100}}
  \cup {[BasePii EXCEPT !.enabled = e] : e \in NotTrue}
  \cup {[BasePii EXCEPT !.whitelist = << <<"B">> >>]}
  \cup {[BasePii EXCEPT !.patterns = p] : p \in BrokenPatterns}
  \cup {[BasePii EXCEPT !.patterns = ShorterFirst]}
  \cup {[BasePii EXCEPT !.redaction =
           [present |-> TRUE, replacement_char |-> <<"*">>, preserve_format |-> FALSE,
            min_length |-> 3]]}

FileModes == {Undefined, "monitor", "warn", "block", "sanitize", "enforce"}

ActionMaps ==
  [on_high : {Undefined, "sanitize", "warn", "block"},
   on_medium : {Undefined, "block", "audit"},
   on_low : {Undefined, "redact"}]

NoGdpr == [present |-> FALSE, mode |-> Undefined, actions |-> NoActions]

GdprSections ==
  {NoGdpr} \cup [present : {TRUE}, mode : FileModes, actions : ActionMaps]

\* the gdpr sections the policy files with another pii_detection section
\* than the base one come with
GdprSlices ==
  {NoGdpr} \cup [present : {TRUE}, mode : {"sanitize", "enforce"}, actions : {NoActions}]

\* the policy files that parse
PolicyFiles ==
  [pii_detection : {BasePii}, gdpr : GdprSections]
  \cup [pii_detection : PiiSections, gdpr : GdprSlices]

\* what the constructor finds at policyPath
FileStates == {"missing", "unparseable", "parsed"}

\* violation lists a direct caller of applyEnforcement builds itself
GivenViolation(type, risk, detected, redacted, path) ==
  [type |-> type, category |-> "contact", risk_level |-> risk,
   detected_text |-> detected, redacted_text |-> redacted, confidence_score |-> 80,
   field_path |-> path, data_source |-> "test", position |-> 0]

GivenViolations ==
  {GivenViolation("email", "low", <<"a">>, <<"*">>, "message"),
   GivenViolation("credit_card", "high", <<"1">>, <<"*">>, "message"),
   GivenViolation("eu_passport", "medium", <<"a", "1">>, <<"*", "*">>, NullPath),
   GivenViolation("custom", "critical", <<"b">>, <<>>, "items[1]")}

RECURSIVE ListsOfLen(_)
ListsOfLen(n) ==
  IF n = 0 THEN {<<>>}
  ELSE {Append(l, v) : l \in ListsOfLen(n - 1), v \in GivenViolations}

GivenLists == UNION {ListsOfLen(n) : n \in 0..MaxViolations}

GivenDocuments ==
  {Obj(<<Entry("message", Str(<<"a", "1">>))>>),
   Obj(<<Entry("message", Str(<<"b">>)),
         Entry("items", Arr(<<Num(<<"1">>), Str(<<"b">>), JsonNull>>))>>),
   Str(<<"a", "1">>)}

\* inputs of the direct calls of calculateConfidence
Categories ==
  {"financial", "identifier", "contact", "special_category", "health", Undefined}

Matches == {RepeatStr(<<"1">>, n) : n \in 1..MaxMatchLen}

ExampleLists(match) == {<<>>, <<match>>, << <<"1", "1">>, <<"a">> >>}

\* inputs of the direct calls of redactText
RedactAlphabet == {"a", "1", "-", "*", "x"}

RECURSIVE RedactTextsOfLen(_)
RedactTextsOfLen(n) ==
  IF n = 0 THEN {<<>>}
  ELSE {Append(t, c) : t \in RedactTextsOfLen(n - 1), c \in RedactAlphabet}

RedactTexts == UNION {RedactTextsOfLen(n) : n \in 0..MaxRedactLen}

RedactionConfigs ==
  {NoRedaction}
  \cup [present : {TRUE},
        replacement_char : {<<"*">>, <<"x">>, <<"*", "*">>, <<"x", "x">>},
        preserve_format : BOOLEAN,
        min_length : {3}]

RedactionPolicies ==
  {[pii_detection |-> [BasePii EXCEPT !.redaction = c], gdpr |-> NoGdpr] :
     c \in RedactionConfigs}

\* bodies of POST /api/policy/enforcement/mode
RequestModes == {Undefined, "monitor", "warn", "block", "sanitize", "enforce"}

\* the data and the mode of the requests to the test endpoint
TestBodies ==
  {JsonNull, Obj(<<Entry("message", Str(<<"a", "1">>))>>), Str(<<"a", "1">>)}

TestModes == {Undefined, "block", "enforce"}

RequestActions ==
  {NoActions,
   [NoActions EXCEPT !.on_high = "warn"],
   [NoActions EXCEPT !.on_medium = "block", !.on_low = "redact"]}

------------------------------------------------------------------------------
(* The state machine *)

NoResult ==
  [action |-> "none", modified |-> FALSE, sanitizedData |-> 0,
   blockReason |-> Null, warnings |-> <<>>, appliedActions |-> <<>>]

\* the values of lastOp between two exchanges
IdleOps == {"init", "idle", "mode_set", "mode_rejected"}

\* the variables of the gateway, and those of a direct call of a helper
gateway == <<policyFile, policy, patterns, heap, data, violations, result, lastOp>>

helper == <<call, ret>>

\* the variables of the proxy: the exchanges it holds, and the handler that
\* is in the middle of its statements
proxy == <<inflight, running>>

\* no handler is in the middle of its statements
NoHandler == [kind |-> "none", actions |-> NoActions, before |-> NoGdpr]

NoCall == [op |-> "none", text |-> <<>>, category |-> Undefined, examples |-> <<>>]

NoReturn == [score |-> 0, text |-> <<>>]

\* loadDefaultPolicy: detection enabled, threshold 0.8, the email pattern
DefaultPolicy ==
  [pii_detection |->
     [enabled |-> JsTrue, confidence_threshold |-> 80, patterns |-> <<"email">>,
      whitelist |-> <<>>, redaction |-> NoRedaction],
   gdpr |-> NoGdpr]

\* faulty variant: a file that does not parse leaves an empty, disabled policy
loadPolicy_NoFallback(fileState, content) ==
  IF fileState = "parsed" THEN content
  ELSE [DefaultPolicy EXCEPT !.pii_detection.enabled = Undefined,
                             !.pii_detection.patterns = <<>>]

\* loadPolicy: the parsed file, or the default policy when the file is
\* missing or JSON.parse throws
loadPolicy(fileState, content) ==
  IF fileState = "parsed" THEN content ELSE DefaultPolicy

\* new PIIDetector(policyPath): the policy file is loaded and compiled
Init ==
  /\ policyFile \in FileStates
  /\ \E content \in PolicyFiles : policy = loadPolicy(policyFile, content)
  /\ patterns = compilePatterns(policy)
  /\ heap = <<>>
  /\ data = 0
  /\ violations = <<>>
  /\ result = NoResult
  /\ lastOp = "init"
  /\ call = NoCall
  /\ ret = NoReturn
  /\ official = policy.gdpr
  /\ inflight = {}
  /\ running = NoHandler

\* { ...old, ...given }: a key of the request replaces the policy's
MergeActions(old, given) ==
  [k \in {"on_high", "on_medium", "on_low"} |->
     IF given[k] # Undefined THEN given[k] ELSE old[k]]

ValidModes == {"monitor", "warn", "block", "sanitize"}

\* faulty variant: the mode is written before it is validated, so a
\* rejected request has already changed it
SetEnforcementMode_WriteFirst(mode, actions) ==
  /\ lastOp \in IdleOps
  /\ IF mode \notin ValidModes
     THEN /\ lastOp' = "mode_rejected"
          /\ policy' = [policy EXCEPT
                          !.gdpr = [present |-> TRUE, mode |-> mode,
                                    actions |-> getActions(policy)]]
          /\ UNCHANGED official
     ELSE /\ lastOp' = "mode_set"
          /\ policy' = [policy EXCEPT
                          !.gdpr = [present |-> TRUE,
                                    mode |-> mode,
                                    actions |-> MergeActions(getActions(policy), actions)]]
          /\ official' = [present |-> TRUE, mode |-> mode,
                          actions |-> MergeActions(getActions(policy), actions)]
  /\ UNCHANGED <<policyFile, patterns, heap, data, violations, result, helper, proxy>>

\* the gdpr section a successful POST of the mode endpoint asks for: the
\* posted mode, and the posted actions over those in force before
Posted(before, mode, actions) ==
  [present |-> TRUE,
   mode |-> mode,
   actions |-> [k \in DOMAIN before.actions |->
                  IF actions[k] = Undefined THEN before.actions[k] ELSE actions[k]]]

\* POST /api/policy/enforcement/mode.  Handlers run to completion on one
\* thread, so the request arrives between two exchanges
SetEnforcementMode(mode, actions) ==
  /\ lastOp \in IdleOps
  /\ IF mode \notin ValidModes
     THEN /\ lastOp' = "mode_rejected"
          /\ UNCHANGED <<policy, official>>
     ELSE /\ lastOp' = "mode_set"
          /\ policy' = [policy EXCEPT
                          !.gdpr = [present |-> TRUE,
                                    mode |-> mode,
                                    actions |-> MergeActions(getActions(policy), actions)]]
          /\ official' = Posted(official, mode, actions)
  /\ UNCHANGED <<policyFile, patterns, heap, data, violations, result, helper, proxy>>

\* scanObject(body, source): the body is parsed onto the heap and scanned
ScanObject(doc) ==
  /\ lastOp \in IdleOps
  /\ heap' = <<doc>>
  /\ data' = 1
  /\ violations' = scanObject(policy, patterns, doc, "request_body")
  /\ result' = NoResult
  /\ lastOp' = "scanned"
  /\ UNCHANGED <<policyFile, policy, patterns, helper, official, proxy>>

\* a direct caller of the detector holds a document and a violation list of
\* its own making
GiveViolations(doc, vs) ==
  /\ lastOp \in IdleOps
  /\ heap' = <<doc>>
  /\ data' = 1
  /\ violations' = vs
  /\ result' = NoResult
  /\ lastOp' = "given"
  /\ UNCHANGED <<policyFile, policy, patterns, helper, official, proxy>>

\* applyEnforcement(data, violations) on the document and list at hand
ApplyEnforcement ==
  /\ lastOp \in {"scanned", "given"}
  /\ LET r == applyEnforcement(policy, heap, data, violations) IN
       /\ heap' = r.heap
       /\ result' = r.result
  /\ lastOp' = IF lastOp = "scanned" THEN "enforced_scanned" ELSE "enforced_given"
  /\ UNCHANGED <<policyFile, policy, patterns, data, violations, helper, official, proxy>>

\* faulty variant: the mode is put back after the try block, not in a
\* finally block, so an exception leaves the temporary mode in force
restoreMode_AfterTry(pol, mode, originalMode, thrown) ==
  IF ~Falsy(mode) /\ mode # originalMode /\ ~thrown
  THEN [pol EXCEPT !.gdpr.mode = originalMode]
  ELSE pol

\* the finally block of the test handler: it runs whether or not the try
\* block has thrown
restoreMode(pol, mode, originalMode, thrown) ==
  IF ~Falsy(mode) /\ mode # originalMode
  THEN [pol EXCEPT !.gdpr.mode = originalMode]
  ELSE pol

\* what a test call leaves when it answers without a result
NoTest(status, pol) ==
  [status |-> status, policy |-> pol, heap |-> <<>>, data |-> 0,
   violations |-> <<>>, result |-> NoResult]

\* the handler of POST /api/policy/test-enforcement, from its first to its
\* last statement: the status it answers, the policy it leaves, and the
\* scan and the enforcement result it answers with.  body is the data of
\* the request (null when there is none), mode the mode of the request;
\* thrown tells whether the try block throws after the enforcement
testEnforcement(pol, pats, body, mode, thrown) ==
  IF body = JsonNull THEN NoTest(400, pol)
  ELSE LET originalMode == getEnforcementMode(pol)
           temporary == ~Falsy(mode) /\ mode # originalMode
       IN IF temporary /\ ~pol.gdpr.present THEN NoTest(500, pol)
          ELSE LET during == IF temporary THEN [pol EXCEPT !.gdpr.mode = mode]
                             ELSE pol
                   vs == scanObject(during, pats, body, "test_data")
                   r == applyEnforcement(during, <<body>>, 1, vs)
                   after == restoreMode(during, mode, originalMode, thrown)
               IN IF thrown THEN NoTest(500, after)
                  ELSE [status |-> 200, policy |-> after, heap |-> r.heap,
                        data |-> 1, violations |-> vs, result |-> r.result]

\* POST /api/policy/test-enforcement: a synchronous handler, it runs to
\* completion between two exchanges
TestEnforcement(body, mode, thrown) ==
  /\ lastOp \in IdleOps
  /\ LET t == testEnforcement(policy, patterns, body, mode, thrown) IN
       /\ policy' = t.policy
       /\ heap' = t.heap
       /\ data' = t.data
       /\ violations' = t.violations
       /\ result' = t.result
       /\ lastOp' = "tested_" \o ToString(t.status)
  /\ UNCHANGED <<policyFile, patterns, helper, official, proxy>>

\* the values of lastOp after a test call
TestedOps == {"tested_200", "tested_400", "tested_500"}

\* the exchange is over: its body, violation list and result are dropped
Return ==
  /\ lastOp \in {"scanned", "given", "enforced_scanned", "enforced_given"} \cup TestedOps
  /\ heap' = <<>>
  /\ data' = 0
  /\ violations' = <<>>
  /\ result' = NoResult
  /\ lastOp' = "idle"
  /\ UNCHANGED <<policyFile, policy, patterns, helper, official, proxy>>

Next ==
  \/ \E mode \in RequestModes, actions \in RequestActions : SetEnforcementMode(mode, actions)
  \/ \E doc \in Documents : ScanObject(doc)
  \/ \E doc \in GivenDocuments, vs \in GivenLists : GiveViolations(doc, vs)
  \/ ApplyEnforcement
  \/ \E body \in TestBodies, mode \in TestModes, thrown \in BOOLEAN :
        TestEnforcement(body, mode, thrown)
  \/ Return

Spec == Init /\ [][Next]_vars

\* the detector whose helpers are called directly: its policy file parses
\* and holds one of the redaction settings
InitPure ==
  /\ policyFile = "parsed"
  /\ \E content \in RedactionPolicies : policy = loadPolicy(policyFile, content)
  /\ patterns = compilePatterns(policy)
  /\ heap = <<>>
  /\ data = 0
  /\ violations = <<>>
  /\ result = NoResult
  /\ lastOp = "init"
  /\ call = NoCall
  /\ ret = NoReturn
  /\ official = policy.gdpr
  /\ inflight = {}
  /\ running = NoHandler

\* calculateConfidence(match, config)
CalculateConfidence(match, config) ==
  /\ call' = [op |-> "calculateConfidence", text |-> match,
              category |-> config.category, examples |-> config.examples]
  /\ ret' = [score |-> calculateConfidence(match, config), text |-> <<>>]
  /\ UNCHANGED <<gateway, official, proxy>>

\* redactText(text, config)
RedactText(text) ==
  /\ call' = [op |-> "redactText", text |-> text, category |-> Undefined,
              examples |-> <<>>]
  /\ ret' = [score |-> 0, text |-> redactText(policy, text)]
  /\ UNCHANGED <<gateway, official, proxy>>

NextPure ==
  \/ \E match \in Matches, category \in Categories :
        \E examples \in ExampleLists(match) :
           CalculateConfidence(match, [category |-> category, examples |-> examples])
  \/ \E text \in RedactTexts : RedactText(text)

SpecPure == InitPure /\ [][NextPure]_vars

------------------------------------------------------------------------------
(* The proxy: the PII middleware, the proxy handlers of the AI routes, the  *)
(* finish handler that persists the audit trail, and the mode endpoint.     *)
(* Every handler is a synchronous piece of code that Node runs to           *)
(* completion before it starts another one; the pieces of one exchange      *)
(* (middleware, proxy request, proxy response, finish) are separated by     *)
(* awaits and I/O, so handlers of other exchanges and of the policy         *)
(* endpoints run in between.                                                *)

\* exchanges the proxy holds at the same time
MaxRequests == 2

ChatRoute == "/v1/chat/completions"

MessagesRoute == "/v1/messages"

\* the routes whose onProxyReq writes req.rawBody to the proxy request
restreams(route) == route \in {"/v1/chat/completions", "/chat/completions"}

RECURSIVE Stringify(_)
RECURSIVE StringifyItems(_, _)
\* the members of an object or the elements of an array, comma separated
StringifyItems(value, i) ==
  IF i > Len(value.items) THEN <<>>
  ELSE (IF i > 1 THEN <<",">> ELSE <<>>)
       \o (IF value.t = "obj" THEN <<"\"", value.items[i].k, "\"", ":">> ELSE <<>>)
       \o Stringify(value.items[i].val)
       \o StringifyItems(value, i + 1)

\* JSON.stringify(value): the compact text, as a sequence of characters and
\* tokens
Stringify(value) ==
  CASE value.t = "str" -> <<"\"">> \o value.s \o <<"\"">>
    [] value.t = "null" -> <<"null">>
    [] value.t = "arr" -> <<"[">> \o StringifyItems(value, 1) \o <<"]">>
    [] value.t = "obj" -> <<"{">> \o StringifyItems(value, 1) \o <<"}">>
    [] OTHER -> value.s

\* the same JSON text as a client that indents its bodies sends it
Pretty(value) == <<" ">> \o Stringify(value)

\* the JSON values of the bodies the clients and the providers send
ProxyDocuments ==
  {Obj(<<Entry("message", Str(<<"1">>))>>),
   Obj(<<Entry("", Str(<<"1">>))>>),
   Obj(<<Entry("message", Str(<<"-">>))>>)}

\* JSON.parse(text): the value whose compact or indented text this is; any
\* other text throws
JsonParse(text) ==
  IF \E d \in ProxyDocuments : text \in {Stringify(d), Pretty(d)}
  THEN [ok |-> TRUE,
        value |-> CHOOSE d \in ProxyDocuments : text \in {Stringify(d), Pretty(d)}]
  ELSE [ok |-> FALSE, value |-> JsonNull]

\* no enforcement record was persisted for the exchange
NoRecord == [enforcementMode |-> "none", action |-> "none", decidedMode |-> "none"]

\* an exchange: req, res and what the proxy has done for them.  pc is the
\* handler the exchange waits for; raw is the body the client sent, heap holds
\* the objects of the request (req.body is a reference into it), upstream is
\* what was written to the proxy request, delivered what was sent back to the
\* client, log the enforcement record persisted for it.  decidedMode (the
\* mode in force when applyEnforcement was called) and consistent (every
\* scan of the exchange saw a policy that no handler was halfway through
\* updating) are not fields of the program: they record its history
NewExchange(route, raw) ==
  [route |-> route, raw |-> raw, pc |-> "middleware", status |-> 0,
   heap |-> <<>>, body |-> 0, rawBody |-> <<>>, piiViolations |-> <<>>,
   enforcementResult |-> NoResult, upstream |-> Null, delivered |-> Null,
   responseViolations |-> <<>>, responseEnforcement |-> NoResult,
   log |-> NoRecord, decidedMode |-> "none", consistent |-> TRUE]

\* faulty variant: the 403 is sent without the return, so the middleware
\* goes on to next() and the blocked body is proxied
piiMiddleware_NoReturn(pol, pats, route, raw) ==
  LET parsed == JsonParse(raw)
      vs == scanObject(pol, pats, parsed.value, "request_body")
      e == applyEnforcement(pol, <<parsed.value>>, 1, vs)
  IN [NewExchange(route, raw) EXCEPT
        !.pc = "forwarding",
        !.status = IF vs # <<>> /\ e.result.action = "block" THEN 403 ELSE 0,
        !.heap = e.heap, !.body = 1, !.rawBody = raw, !.piiViolations = vs,
        !.enforcementResult = IF vs # <<>> THEN e.result ELSE NoResult]

\* the PII middleware of the AI routes on a POST, after the raw body has
\* been read: parse, scan, enforce, and either answer 403 or call next()
piiMiddleware(pol, pats, route, raw) ==
  LET parsed == JsonParse(raw) IN
  IF ~parsed.ok
  THEN \* catch: "continue anyway" with an empty body
       [NewExchange(route, raw) EXCEPT
          !.pc = "forwarding", !.heap = <<Obj(<<>>)>>, !.body = 1]
  ELSE LET vs == IF IsObject(parsed.value)
                 THEN scanObject(pol, pats, parsed.value, "request_body")
                 ELSE <<>>
           e == applyEnforcement(pol, <<parsed.value>>, 1, vs)
           scanned == [NewExchange(route, raw) EXCEPT
                         !.pc = "forwarding", !.heap = <<parsed.value>>, !.body = 1,
                         !.rawBody = raw, !.piiViolations = vs]
       IN IF vs = <<>> THEN scanned
          ELSE IF e.result.action = "block"
          THEN [scanned EXCEPT !.pc = "rejected", !.status = 403, !.heap = e.heap,
                               !.enforcementResult = e.result]
          ELSE IF e.result.modified
          THEN [scanned EXCEPT !.heap = e.heap, !.enforcementResult = e.result,
                               !.body = e.result.sanitizedData,
                               !.rawBody = Stringify(e.heap[e.result.sanitizedData])]
          ELSE [scanned EXCEPT !.heap = e.heap, !.enforcementResult = e.result]

\* faulty variant: handlers are started while another one is halfway
threadFree_Preemptive == TRUE

\* a handler is started only when the one before it has returned: the
\* handlers of the policy endpoints have no await, they run to completion
threadFree == running = NoHandler

\* the policy is not halfway through an update: it is the one the file or
\* the last POST of the mode endpoint asked for, or the one before that POST
Complete ==
  /\ patterns = compilePatterns(policy)
  /\ \/ policy.gdpr = official
     \/ running.kind = "mode" /\ policy.gdpr = running.before

\* a POST to an AI route goes through the PII middleware
PiiMiddleware(route, raw) ==
  /\ threadFree
  /\ Cardinality(inflight) < MaxRequests
  /\ LET r == piiMiddleware(policy, patterns, route, raw) IN
       inflight' = inflight \cup
          {[r EXCEPT !.decidedMode = IF r.enforcementResult = NoResult THEN "none"
                                     ELSE getEnforcementMode(policy),
                     !.consistent = Complete]}
  /\ UNCHANGED <<gateway, helper, official, running>>

\* onProxyReq: the routes that re-stream write req.rawBody, when there is one
OnProxyReq(r) ==
  /\ threadFree
  /\ r.pc = "forwarding"
  /\ inflight' = (inflight \ {r}) \cup
       {[r EXCEPT !.pc = "awaiting",
                  !.upstream = IF restreams(r.route) /\ r.rawBody # <<>>
                               THEN Some(r.rawBody) ELSE Null]}
  /\ UNCHANGED <<gateway, helper, official, running>>

\* onProxyRes and its 'end' listener: the provider's answer is piped to the
\* client while it is buffered, then parsed and scanned
OnProxyRes(r, response) ==
  /\ threadFree
  /\ r.pc = "awaiting"
  /\ LET parsed == JsonParse(response)
         vs == IF parsed.ok
               THEN scanObject(policy, patterns, parsed.value, "response_body")
               ELSE <<>>
     IN inflight' = (inflight \ {r}) \cup
          {[r EXCEPT !.pc = "answered", !.status = 200,
                     !.delivered = Some(response),
                     !.piiViolations = @ \o vs,
                     !.responseViolations = vs,
                     !.consistent = @ /\ Complete]}
  /\ UNCHANGED <<gateway, helper, official, running>>

\* onError: the provider could not be reached (502; 504 on a timeout, 500
\* otherwise)
OnError(r) ==
  /\ threadFree
  /\ r.pc = "awaiting"
  /\ inflight' = (inflight \ {r}) \cup {[r EXCEPT !.pc = "answered", !.status = 502]}
  /\ UNCHANGED <<gateway, helper, official, running>>

\* the enforcement record the finish handler persists
enforcementRecord(pol, r) ==
  IF r.enforcementResult # NoResult /\ r.enforcementResult.appliedActions # <<>>
  THEN [enforcementMode |-> getEnforcementMode(pol),
        action |-> r.enforcementResult.action,
        decidedMode |-> r.decidedMode]
  ELSE NoRecord

\* res.on('finish'): the audit entry, the violations and the enforcement
\* record are persisted; the objects of the exchange are released
Finish(r) ==
  /\ threadFree
  /\ r.pc \in {"rejected", "answered"}
  /\ inflight' = (inflight \ {r}) \cup
       {[NewExchange(r.route, <<>>) EXCEPT !.pc = "done",
                                          !.log = enforcementRecord(policy, r)]}
  /\ UNCHANGED <<gateway, helper, official, running>>

\* POST /api/policy/enforcement/mode, up to the write of the mode
ModeWrite(mode, actions) ==
  /\ threadFree
  /\ IF mode \notin ValidModes
     THEN UNCHANGED <<policy, official, running>>
     ELSE /\ policy' = [policy EXCEPT
                          !.gdpr = [present |-> TRUE, mode |-> mode,
                                    actions |-> getActions(policy)]]
          /\ official' = Posted(official, mode, actions)
          /\ running' = IF actions = NoActions THEN NoHandler
                        ELSE [kind |-> "mode", actions |-> actions,
                              before |-> policy.gdpr]
  /\ UNCHANGED <<policyFile, patterns, heap, data, violations, result, lastOp,
                 helper, inflight>>

\* the same handler, from the write of the actions to its answer
ActionsWrite ==
  /\ running.kind = "mode"
  /\ policy' = [policy EXCEPT
                  !.gdpr.actions = MergeActions(getActions(policy), running.actions)]
  /\ running' = NoHandler
  /\ UNCHANGED <<policyFile, patterns, heap, data, violations, result, lastOp,
                 helper, official, inflight>>

\* the policy files of the proxy
ProxyPolicies ==
  [pii_detection : {BasePii},
   gdpr : {NoGdpr} \cup [present : {TRUE}, mode : {"sanitize"}, actions : {NoActions}]]

\* the bodies the clients post: compact or indented JSON, or no JSON at all
ClientBodies ==
  {Pretty(Obj(<<Entry("message", Str(<<"1">>))>>)),
   Stringify(Obj(<<Entry("", Str(<<"1">>))>>)),
   Stringify(Obj(<<Entry("message", Str(<<"-">>))>>)),
   <<"{">>}

\* what the clients post where
Posts ==
  {<<ChatRoute, b>> : b \in ClientBodies}
  \cup {<<MessagesRoute, Pretty(Obj(<<Entry("message", Str(<<"1">>))>>))>>}

\* the bodies the providers answer with
ProviderBodies ==
  {Stringify(Obj(<<Entry("message", Str(<<"1">>))>>)),
   Stringify(Obj(<<Entry("message", Str(<<"-">>))>>))}

\* the requests to the mode endpoint
PostedModes == {"monitor", "block", "enforce"}

PostedActions == {NoActions, [NoActions EXCEPT !.on_high = "warn"]}

InitServer ==
  /\ policyFile = "parsed"
  /\ \E content \in ProxyPolicies : policy = loadPolicy(policyFile, content)
  /\ patterns = compilePatterns(policy)
  /\ heap = <<>>
  /\ data = 0
  /\ violations = <<>>
  /\ result = NoResult
  /\ lastOp = "init"
  /\ call = NoCall
  /\ ret = NoReturn
  /\ official = policy.gdpr
  /\ inflight = {}
  /\ running = NoHandler

NextServer ==
  \/ \E post \in Posts : PiiMiddleware(post[1], post[2])
  \/ \E r \in inflight : OnProxyReq(r)
  \/ \E r \in inflight, response \in ProviderBodies : OnProxyRes(r, response)
  \/ \E r \in inflight : OnError(r)
  \/ \E r \in inflight : Finish(r)
  \/ \E mode \in PostedModes, actions \in PostedActions : ModeWrite(mode, actions)
  \/ ActionsWrite

SpecServer == InitServer /\ [][NextServer]_vars

------------------------------------------------------------------------------
(* Properties of applyEnforcement *)

\* applyEnforcement has returned for the document and list at hand
Enforced == lastOp \in {"enforced_scanned", "enforced_given"}

\* the mode as the policy file or the mode endpoint left it
ConfiguredMode == IF policy.gdpr.present THEN policy.gdpr.mode ELSE Undefined

HasRisk(vs, risk) == \E i \in 1..Len(vs) : vs[i].risk_level = risk

\* C1: under mode=monitor, and when gdpr.mode is absent, applyEnforcement
\* returns action=allow and modified=false with sanitizedData the input data
\* itself, for every violation list and every per-risk actions map.
C1_MonitorNeverBlocks ==
  (Enforced /\ ConfiguredMode \in {Undefined, "monitor"}) =>
     /\ result.action = "allow"
     /\ result.modified = FALSE
     /\ result.sanitizedData = data
     /\ heap = <<heap[data]>>

\* C1 happens: the mode is absent, the list holds a high-risk violation and
\* the actions map asks for sanitizing high-risk data
C1_Witness ==
  /\ Enforced
  /\ policy.gdpr.present /\ policy.gdpr.mode = Undefined
  /\ policy.gdpr.actions.on_high = "sanitize"
  /\ HasRisk(violations, "high")
  /\ result.appliedActions = <<"logged_for_monitoring">>

\* the pieces of a block reason name the violation's type and risk level
NamesViolation(pieces, v) ==
  \E j \in 1..(Len(pieces) - 3) :
     /\ pieces[j] = v.type
     /\ pieces[j + 1] = " ("
     /\ pieces[j + 2] = v.risk_level
     /\ pieces[j + 3] = ")"

\* C2: under mode=block, applyEnforcement blocks exactly when the violation
\* list is non-empty, whatever the risk levels and the actions map (so a
\* superset of a blocked list is blocked), and blockReason names the type and
\* risk level of every violation of the list.
C2_BlockModeBlocksOnAnyViolation ==
  (Enforced /\ ConfiguredMode = "block") =>
     /\ (result.action = "block") <=> (violations # <<>>)
     /\ violations # <<>> =>
          /\ ~result.blockReason.null
          /\ \A i \in 1..Len(violations) :
                NamesViolation(result.blockReason.v, violations[i])

\* C2 happens: block mode blocks a list of two violations, none of them
\* high-risk, under an actions map that only warns on high risk
C2_Witness ==
  /\ Enforced
  /\ ConfiguredMode = "block"
  /\ policy.gdpr.actions.on_high = "warn"
  /\ Len(violations) >= 2
  /\ ~HasRisk(violations, "high")
  /\ result.action = "block"

\* C3: in every result of applyEnforcement, for every mode, actions map and
\* violation list, action is allow or block, and a block has a blockReason.
C3_BlockHasReason ==
  Enforced =>
     /\ result.action \in {"allow", "block"}
     /\ result.action = "block" => ~result.blockReason.null

\* C3 happens: an unrecognized mode blocks through the per-risk path
C3_Witness ==
  /\ Enforced
  /\ ConfiguredMode = "enforce"
  /\ result.action = "block"
  /\ result.appliedActions = <<"blocked_high_risk">>

\* the path of the element at a 0-based index of an array: parent[index]
PathOfIndex(parent, index) == parent \o "[" \o ToString(index) \o "]"

\* the path of an entry of an object: parent.key, or the bare key under an
\* empty parent path
PathOfKey(parent, key) == IF parent = "" THEN key ELSE parent \o "." \o key

\* the string leaves of a value with their field paths, depth first, array
\* elements by index and object entries in insertion order
RECURSIVE Leaves(_, _)
RECURSIVE LeavesFrom(_, _, _)
LeavesFrom(value, fieldPath, i) ==
  IF i > Len(value.items) THEN <<>>
  ELSE (IF value.t = "arr"
        THEN Leaves(value.items[i].val, PathOfIndex(fieldPath, i - 1))
        ELSE Leaves(value.items[i].val, PathOfKey(fieldPath, value.items[i].k)))
       \o LeavesFrom(value, fieldPath, i + 1)

Leaves(value, fieldPath) ==
  IF value.t = "str" THEN <<[path |-> fieldPath, text |-> value.s]>>
  ELSE IF IsObject(value) THEN LeavesFrom(value, fieldPath, 1)
  ELSE <<>>

\* the sanitized value differs from the caller's at the leaf with this path
DiffersAt(path) ==
  LET before == Leaves(heap[data], "")
      after == Leaves(heap[result.sanitizedData], "")
  IN \E i \in 1..Len(before) :
        /\ before[i].path = path
        /\ i <= Len(after)
        /\ after[i].text # before[i].text

\* C4: whenever applyEnforcement returns modified=true, sanitizedData differs
\* from the data at the field path of every violation of the list (stated
\* here for the lists scanObject produced on the same data).
C4_ModifiedDiffersAtEveryPath ==
  (lastOp = "enforced_scanned" /\ result.modified) =>
     \A i \in 1..Len(violations) : DiffersAt(violations[i].field_path)

\* the violations handed to the sanitizeData call whose value the result
\* holds: all of them in sanitize mode, else the last bucket sanitized
SanitizedBucket ==
  IF SeqContains(result.appliedActions, "sanitized_by_sanitize_mode") THEN violations
  ELSE IF SeqContains(result.appliedActions, "sanitized_low_risk") THEN Filter(violations, "low")
  ELSE IF SeqContains(result.appliedActions, "sanitized_medium_risk")
       THEN Filter(violations, "medium")
  ELSE IF SeqContains(result.appliedActions, "sanitized_high_risk")
       THEN Filter(violations, "high")
  ELSE <<>>

\* what sanitizeData does guarantee: sanitizedData differs from the data at
\* the field path of every violation that was handed to the last
\* sanitizeData call (every violation in sanitize mode, the violations of the
\* last sanitized bucket in the per-risk path), provided its field path is
\* not empty and its redacted text differs from its detected text
SanitizedBucketDiffers ==
  (lastOp = "enforced_scanned" /\ result.modified) =>
     \A i \in 1..Len(SanitizedBucket) :
        (/\ SanitizedBucket[i].field_path # ""
         /\ SanitizedBucket[i].redacted_text # SanitizedBucket[i].detected_text)
        => DiffersAt(SanitizedBucket[i].field_path)

\* C5: under mode=sanitize with a non-empty list that scanObject produced on
\* the same data, applyEnforcement returns action=allow and modified=true
\* and no string of sanitizedData still contains the detected text of any
\* violation.
C5_SanitizeRemovesDetectedText ==
  (lastOp = "enforced_scanned" /\ ConfiguredMode = "sanitize" /\ violations # <<>>) =>
     /\ result.action = "allow"
     /\ result.modified
     /\ LET after == Leaves(heap[result.sanitizedData], "") IN
        \A i \in 1..Len(after), j \in 1..Len(violations) :
           ~Includes(after[i].text, violations[j].detected_text)

\* the step in which applyEnforcement runs
EnforcementStep == lastOp \in {"scanned", "given"} /\ Enforced'

\* C6: applyEnforcement never mutates the data object or the violation list
\* passed to it, in any mode and for any per-risk action; when modified=true
\* for a data object, sanitizedData is another object than the caller's.
C6_EnforcementLeavesInputs ==
  [][EnforcementStep =>
       /\ data' = data
       /\ heap'[data] = heap[data]
       /\ violations' = violations
       /\ (result'.modified /\ IsObject(heap[data])) => result'.sanitizedData # data]_vars

\* C6 happens: a sanitized copy differs from the caller's object, which
\* still holds the detected text
C6_Witness ==
  /\ Enforced
  /\ result.modified
  /\ result.sanitizedData # data
  /\ heap[result.sanitizedData] # heap[data]
  /\ \E i \in 1..Len(violations), j \in 1..Len(Leaves(heap[data], "")) :
        Includes(Leaves(heap[data], "")[j].text, violations[i].detected_text)

\* C7: an empty violation list yields action=allow, modified=false,
\* blockReason=null and sanitizedData the input itself, in every mode and
\* for every per-risk actions map.
C7_EmptyListAllows ==
  (Enforced /\ violations = <<>>) =>
     /\ result.action = "allow"
     /\ result.modified = FALSE
     /\ result.blockReason.null
     /\ result.sanitizedData = data
     /\ heap = <<heap[data]>>

\* C7 happens: block mode, a scanned body without PII
C7_Witness ==
  /\ lastOp = "enforced_scanned"
  /\ ConfiguredMode = "block"
  /\ violations = <<>>
  /\ Leaves(heap[data], "") # <<>>
  /\ result.appliedActions = <<>>

------------------------------------------------------------------------------
(* Properties of scanText and scanObject *)

\* the violation list at hand is the one scanObject returned
Scanned == lastOp \in {"scanned", "enforced_scanned"}

\* the configured confidence_threshold, 0.8 when none is configured
ConfiguredThreshold ==
  IF policy.pii_detection.confidence_threshold = -1 THEN 80
  ELSE policy.pii_detection.confidence_threshold

\* C9: every violation scanObject returns has confidence_score >= the
\* configured confidence_threshold (0.8 when none is configured).
C9_ViolationsClearThreshold ==
  Scanned =>
     \A i \in 1..Len(violations) : violations[i].confidence_score >= ConfiguredThreshold

\* C9 happens: at threshold 0.9 the text "b1" matches three patterns and only
\* the match that is one of its pattern's examples (0.99) is returned
C9_Witness ==
  /\ lastOp = "scanned"
  /\ policy.pii_detection.confidence_threshold = 90
  /\ heap[data] = Obj(<<Entry("message", Str(<<"b", "1">>))>>)
  /\ Len(violations) = 1
  /\ violations[1].type = "eu_passport"
  /\ violations[1].confidence_score = 99

\* the thresholds of the sweep, 0.0 to 1.0
SweepThresholds == {0, 50, 75, 80, 90, 100}

WithThreshold(t) == [policy EXCEPT !.pii_detection.confidence_threshold = t]

IsSubList(a, b) == \A i \in 1..Len(a) : SeqContains(b, a[i])

\* C10: for a fixed text and pattern set, the violations returned at a
\* higher confidence_threshold are a subset of those returned at any lower
\* one, over the whole range 0.0 to 1.0, 0.0 included.
C10_ThresholdSweepShrinks ==
  (lastOp = "scanned" /\ policy.pii_detection.confidence_threshold \in SweepThresholds) =>
     \A hi \in SweepThresholds :
        hi >= policy.pii_detection.confidence_threshold =>
           IsSubList(scanObject(WithThreshold(hi), patterns, heap[data], "request_body"),
                     violations)

------------------------------------------------------------------------------
(* Properties of loadPolicy and compilePatterns *)

\* the constructor found no policy file, or one that JSON.parse rejects
DefaultLoaded == policyFile \in {"missing", "unparseable"}

\* a body whose one string is an email address and nothing else
OneEmailBody == Obj(<<Entry("message", Str(<<"a">>))>>)

\* C11: when the policy document is missing or unparseable the detector
\* falls back to the default policy and stays operational: detection is
\* enabled with the single email pattern, and scanning a text that holds one
\* email address returns exactly one email violation, category contact,
\* confidence 0.75.
C11_DefaultPolicyFindsEmail ==
  DefaultLoaded =>
     /\ isEnabled(policy)
     /\ patterns = <<"email">>
     /\ (lastOp = "scanned" /\ heap[data] = OneEmailBody) =>
           /\ Len(violations) = 1
           /\ violations[1].type = "email"
           /\ violations[1].category = "contact"
           /\ violations[1].confidence_score = 75

\* what the default policy does: it is enabled with the email pattern alone,
\* and no scan returns a violation, since an email scores 0.75 and the
\* default policy's threshold is 0.8
DefaultPolicyFindsNothing ==
  DefaultLoaded =>
     /\ isEnabled(policy)
     /\ patterns = <<"email">>
     /\ Scanned => violations = <<>>

\* the compiled patterns are the declared ones whose regex is valid
ValidDeclared ==
  {n \in {policy.pii_detection.patterns[i] : i \in 1..Len(policy.pii_detection.patterns)} :
     PatternConfig(n).valid}

\* where a pattern stands in the policy's pattern map
DeclaredAt(n) ==
  CHOOSE i \in 1..Len(policy.pii_detection.patterns) : policy.pii_detection.patterns[i] = n

\* C14: loading a policy in which some pattern's regex fails to compile
\* skips only that pattern: the compiled set is exactly the declared patterns
\* with valid regexes, in declaration order, whatever the position of the
\* failing one, and the policy in force is the file's, not the default one.
C14_BadRegexSkipsOnlyThatPattern ==
  policyFile = "parsed" =>
     /\ {patterns[i] : i \in 1..Len(patterns)} = ValidDeclared
     /\ Len(patterns) = Cardinality(ValidDeclared)
     /\ \A i, j \in 1..Len(patterns) :
           i < j => DeclaredAt(patterns[i]) < DeclaredAt(patterns[j])
     /\ policy.pii_detection \in {f.pii_detection : f \in PolicyFiles}

\* C14 happens: the first declared regex does not compile, and a scan
\* reports a match of the last declared pattern
C14_Witness ==
  /\ policyFile = "parsed"
  /\ policy.pii_detection.patterns = <<"broken", "email", "credit_card">>
  /\ patterns = <<"email", "credit_card">>
  /\ lastOp = "scanned"
  /\ \E i \in 1..Len(violations) : violations[i].type = "credit_card"

------------------------------------------------------------------------------
(* Properties of the whitelist and of the enabled flag *)

\* two characters that differ at most in case
SameLetter(c, d) == c = d \/ {c, d} \in {{"a", "A"}, {"b", "B"}}

\* the text holds the phrase as a substring, case ignored
HoldsPhrase(text, phrase) ==
  \E i \in 0..(Len(text) - Len(phrase)) :
     \A j \in 1..Len(phrase) : SameLetter(text[i + j], phrase[j])

\* the text holds one of the policy's whitelist phrases
Whitelisted(text) ==
  \E i \in 1..Len(policy.pii_detection.whitelist) :
     HoldsPhrase(text, policy.pii_detection.whitelist[i])

\* the violations of the list at hand that carry this field path
ViolationsAt(path) ==
  LET AtPath(v) == v.field_path = path IN SelectSeq(violations, AtPath)

\* what scanText returns for the text when nothing is whitelisted, with the
\* field path scanObject gives it
Unsuppressed(text, path) ==
  LET found == scanText([policy EXCEPT !.pii_detection.whitelist = <<>>], patterns,
                        text, "request_body")
  IN [i \in 1..Len(found) |-> [found[i] EXCEPT !.field_path = path]]

\* C12: a string that holds a whitelist phrase as a case-insensitive
\* substring yields no violation, whatever pattern matches it also holds; in
\* scanObject the suppression applies to that string leaf only, the other
\* leaves are scanned as if there were no whitelist.
C12_WhitelistSuppressesLeaf ==
  (Scanned /\ IsObject(heap[data]) /\ policy.pii_detection.enabled = JsTrue) =>
     \A i \in 1..Len(Leaves(heap[data], "")) :
        LET leaf == Leaves(heap[data], "")[i] IN
        IF Whitelisted(leaf.text)
        THEN ViolationsAt(leaf.path) = <<>>
        ELSE ViolationsAt(leaf.path) = Unsuppressed(leaf.text, leaf.path)

\* C12 happens: the message holds the phrase "B" in lower case next to a
\* card number and yields nothing, while the card number in the array is
\* reported
C12_Witness ==
  /\ lastOp = "scanned"
  /\ policy.pii_detection.whitelist = << <<"B">> >>
  /\ Leaves(heap[data], "") =
        <<[path |-> "message", text |-> <<"b", "1">>],
          [path |-> "items[1]", text |-> <<"1">>]>>
  /\ Len(violations) = 1
  /\ violations[1].field_path = "items[1]"
  /\ violations[1].type = "credit_card"

\* C13: when pii_detection.enabled is not true, scanObject (and scanText,
\* which it calls on every string) returns an empty list for every input.
C13_DisabledScansNothing ==
  (Scanned /\ policy.pii_detection.enabled # JsTrue) => violations = <<>>

\* C13 happens: enabled is the string "true", and a body whose message
\* matches all three patterns is scanned
C13_Witness ==
  /\ lastOp = "scanned"
  /\ policy.pii_detection.enabled = "'true'"
  /\ heap[data] = Obj(<<Entry("message", Str(<<"b", "1">>))>>)
  /\ Match(<<"b", "1">>, PatternConfig("credit_card").regex) # <<>>
  /\ violations = <<>>

------------------------------------------------------------------------------
(* Properties of calculateConfidence and redactText, under SpecPure *)

\* the reference ladder of confidence scores, in hundredths
Ladder(category, length) ==
  CASE category = "financial" /\ length >= 15 -> 95
    [] category = "financial" /\ length >= 10 /\ length <= 14 -> 90
    [] category = "financial" /\ length < 10 -> 80
    [] category = "identifier" -> 85
    [] category = "contact" -> 75
    [] category = "special_category" -> 90
    [] OTHER -> 80

\* C15: calculateConfidence equals the reference ladder for every category
\* and match length: 0.99 when the match is one of the pattern's examples;
\* otherwise 0.95 for financial matches of length >= 15, 0.9 for financial
\* matches of length 10 to 14, 0.8 for shorter financial matches and for any
\* unlisted category, 0.85 for identifier, 0.75 for contact, 0.9 for
\* special_category; the result never exceeds 1.0.
C15_ConfidenceLadder ==
  call.op = "calculateConfidence" =>
     /\ ret.score = IF \E i \in 1..Len(call.examples) : call.examples[i] = call.text
                    THEN 99
                    ELSE Ladder(call.category, Len(call.text))
     /\ ret.score <= 100

\* C15 happens: a financial match of 15 characters that is no example
\* scores 0.95
C15_Witness ==
  /\ call.op = "calculateConfidence"
  /\ call.category = "financial"
  /\ Len(call.text) = 15
  /\ call.examples = << <<"1", "1">>, <<"a">> >>
  /\ ret.score = 95

\* the redaction settings of the policy at hand: preserve_format (true when
\* the policy has no redaction section) and replacement_char ("*" then)
Preserving ==
  ~policy.pii_detection.redaction.present \/ policy.pii_detection.redaction.preserve_format

Replacement ==
  IF policy.pii_detection.redaction.present
  THEN policy.pii_detection.redaction.replacement_char
  ELSE <<"*">>

RECURSIVE WidthBefore(_, _, _)
\* the length of the redacted text of the characters before the i-th
WidthBefore(text, r, i) ==
  IF i <= 1 THEN 0
  ELSE WidthBefore(text, r, i - 1) + (IF IsAlnum(text[i - 1]) THEN Len(r) ELSE 1)

AlreadyRedacted(text) ==
  \A i \in 1..Len(text) : text[i] = Replacement[1] \/ ~IsAlnum(text[i])

------------------------------------------------------------------------------
(* Properties of scanObject's traversal *)

RECURSIVE PerLeaf(_)
\* what scanText returns for each leaf in turn, each violation carrying the
\* path of its leaf
PerLeaf(leaves) ==
  IF leaves = <<>> THEN <<>>
  ELSE LET found == scanText(policy, patterns, Head(leaves).text, "request_body") IN
       [i \in 1..Len(found) |-> [found[i] EXCEPT !.field_path = Head(leaves).path]]
       \o PerLeaf(Tail(leaves))

\* C18: scanObject visits every string leaf of a nested object/array
\* structure exactly once and returns, in traversal order, exactly the
\* violations scanText returns for that leaf, each with field_path set to
\* the leaf's path (parent[index] for array elements, parent.key or the bare
\* key under an empty parent path for object entries); numbers, booleans and
\* null contribute no violation, and no violation has a null field_path.
C18_ScanObjectVisitsEveryLeafOnce ==
  (Scanned /\ IsObject(heap[data]) /\ policy.pii_detection.enabled = JsTrue) =>
     /\ violations = PerLeaf(Leaves(heap[data], ""))
     /\ \A i \in 1..Len(violations) : violations[i].field_path # NullPath

\* C18 happens: a string two objects deep and a string in an object of an
\* array are reported in that order under their paths
C18_Witness ==
  /\ lastOp = "scanned"
  /\ heap[data] = Obj(<<Entry("guest", Obj(<<Entry("email", Str(<<"a">>))>>)),
                        Entry("rooms", Arr(<<Obj(<<Entry("card", Str(<<"1">>))>>)>>))>>)
  /\ Len(violations) = 2
  /\ violations[1].field_path = "guest.email" /\ violations[1].type = "email"
  /\ violations[2].field_path = "rooms[0].card" /\ violations[2].type = "credit_card"

------------------------------------------------------------------------------
(* Properties of the per-risk fallback path of applyEnforcement *)

\* applyEnforcement has taken the per-risk path: the mode is a string other
\* than the four recognized ones and the list is not empty
PerRisk ==
  /\ Enforced
  /\ ConfiguredMode \notin ValidModes \cup {Undefined}
  /\ violations # <<>>

\* C19: in the per-risk path, when high-risk violations exist and
\* actions.on_high resolves to block (explicitly or by default), the result
\* is action=block and no further bucket is processed: appliedActions holds
\* only blocked_high_risk, modified stays false, and no warning and no
\* sanitized copy is produced.
C19_HighBlockShortCircuits ==
  (PerRisk /\ HasRisk(violations, "high")
     /\ policy.gdpr.actions.on_high \in {Undefined, "block"}) =>
     /\ result.action = "block"
     /\ result.appliedActions = <<"blocked_high_risk">>
     /\ result.modified = FALSE
     /\ result.warnings = <<>>
     /\ result.sanitizedData = data
     /\ heap = <<heap[data]>>

\* C19 happens: on_high is block explicitly, the list also holds a medium-
\* and a low-risk violation whose buckets have actions of their own
C19_Witness ==
  /\ PerRisk
  /\ policy.gdpr.actions = [on_high |-> "block", on_medium |-> "audit", on_low |-> "redact"]
  /\ HasRisk(violations, "high")
  /\ HasRisk(violations, "medium")
  /\ HasRisk(violations, "low")
  /\ result.appliedActions = <<"blocked_high_risk">>

\* the actions applyActionForRisk recognizes
KnownActions == {"block", "redact", "sanitize", "warn", "allow_with_note"}

RECURSIVE Without(_, _)
\* the list without the violations of one risk level
Without(vs, risk) ==
  IF vs = <<>> THEN <<>>
  ELSE (IF Head(vs).risk_level = risk THEN <<>> ELSE <<Head(vs)>>) \o Without(Tail(vs), risk)

RECURSIVE Drop(_, _)
\* the sequence without the occurrences of one element
Drop(seq, x) ==
  IF seq = <<>> THEN <<>>
  ELSE (IF Head(seq) = x THEN <<>> ELSE <<Head(seq)>>) \o Drop(Tail(seq), x)

\* C20: in the per-risk path, a configured action string that is none of
\* block/redact/sanitize/warn/allow_with_note is a no-op for its bucket
\* apart from appending "default_action_<risk>_risk" to appliedActions:
\* action, modified, sanitizedData, blockReason and warnings are what they
\* are for the list without that bucket's violations (stated for the medium
\* bucket).
C20_UnknownActionIsNoOp ==
  (PerRisk /\ HasRisk(violations, "medium")
     /\ policy.gdpr.actions.on_medium \notin KnownActions \cup {Undefined}) =>
     LET rest == applyEnforcement(policy, <<heap[data]>>, data, Without(violations, "medium"))
         tag == "default_action_medium_risk"
     IN /\ result.action = rest.result.action
        /\ result.modified = rest.result.modified
        /\ result.sanitizedData = rest.result.sanitizedData
        /\ result.blockReason = rest.result.blockReason
        /\ result.warnings = rest.result.warnings
        /\ heap = rest.heap
        /\ Drop(result.appliedActions, tag) = rest.result.appliedActions
        /\ Len(result.appliedActions) = Len(rest.result.appliedActions)
                                         + (IF result.action = "block" THEN 0 ELSE 1)
        /\ Without(violations, "medium") = <<>> =>
              /\ result.action = "allow"
              /\ result.modified = FALSE
              /\ result.sanitizedData = data
              /\ result.blockReason.null
              /\ result.warnings = <<>>
              /\ result.appliedActions = <<tag>>

\* C20 happens: on_medium is "audit"; the high bucket warned before it and
\* the low bucket is sanitized after it
C20_Witness ==
  /\ PerRisk
  /\ policy.gdpr.actions = [on_high |-> "warn", on_medium |-> "audit", on_low |-> "redact"]
  /\ result.action = "allow"
  /\ result.appliedActions =
        <<"warned_high_risk", "default_action_medium_risk", "sanitized_low_risk">>
  /\ Len(result.warnings) = 1
  /\ result.modified

------------------------------------------------------------------------------
(* Properties of the recognized modes and of sanitizeData *)

\* C21: when the policy defines per-risk actions, applyEnforcement applies
\* them to the matching risk buckets also when the mode is warn or sanitize:
\* with on_high=block and a high-risk violation in the list the result is
\* action=block.
C21_PerRiskActionsUnderWarnOrSanitize ==
  (Enforced /\ ConfiguredMode \in {"warn", "sanitize"}
     /\ getActions(policy).on_high = "block"
     /\ HasRisk(violations, "high")) =>
     result.action = "block"

\* the risk levels whose bucket applyActionForRisk sanitized
SanitizedRisks ==
  {risk \in {"high", "medium", "low"} :
     SeqContains(result.appliedActions, "sanitized_" \o risk \o "_risk")}

\* the text of the leaf of a value at a field path
TextAt(value, path) ==
  LET leaves == Leaves(value, "") IN
  {leaves[i].text : i \in {j \in 1..Len(leaves) : leaves[j].path = path}}

\* C27: in the per-risk path, when more than one risk bucket resolves to
\* redact or sanitize, the final sanitizedData has the detected text of the
\* violations of every sanitized bucket redacted at their field paths, not
\* only that of the last bucket processed (stated for the lists scanObject
\* produced, whose field paths are not empty).
C27_EverySanitizedBucketRedacted ==
  (lastOp = "enforced_scanned" /\ PerRisk /\ Cardinality(SanitizedRisks) > 1) =>
     \A i \in 1..Len(violations) :
        (violations[i].risk_level \in SanitizedRisks /\ violations[i].field_path # "") =>
           \A text \in TextAt(heap[result.sanitizedData], violations[i].field_path) :
              ~Includes(text, violations[i].detected_text)

\* the 1-based positions of a text that lie inside an occurrence of s
Covered(text, s) ==
  {k \in 1..Len(text) :
     \E p \in 1..Len(text) : IsPrefixAt(text, s, p) /\ p <= k /\ k < p + Len(s)}

\* C28: after sanitizeData every character that lies inside any violation's
\* match is redacted in the result, also when matches of different patterns
\* overlap or one detected text is a substring of another's, whatever the
\* order of the list (stated for sanitize mode under the default,
\* width-preserving redaction, on lists scanObject produced, whose field
\* paths are not empty: a redacted character is one that is no letter or
\* digit any more).
C28_EveryMatchedCharacterRedacted ==
  (lastOp = "enforced_scanned" /\ ConfiguredMode = "sanitize" /\ result.modified
     /\ ~policy.pii_detection.redaction.present) =>
     \A i \in 1..Len(violations) :
        violations[i].field_path # "" =>
           \A before \in TextAt(heap[data], violations[i].field_path),
              after \in TextAt(heap[result.sanitizedData], violations[i].field_path) :
              /\ Len(after) = Len(before)
              /\ \A k \in Covered(before, violations[i].detected_text) :
                    ~IsAlnum(after[k])

------------------------------------------------------------------------------
(* Properties of the mode endpoint and of the test endpoint.  official is   *)
(* the gdpr section of the policy file and, after it, the one the most      *)
(* recent successful POST of the mode endpoint asked for.                   *)

\* the mode a gdpr section puts in force
EffectiveMode(section) ==
  IF section.present /\ section.mode \notin {Undefined, ""} THEN section.mode
  ELSE "monitor"

\* what applyEnforcement records when it acts under a recognized mode
ModeTag(mode) ==
  CASE mode = "monitor" -> "logged_for_monitoring"
    [] mode = "block" -> "blocked_by_block_mode"
    [] mode = "sanitize" -> "sanitized_by_sanitize_mode"
    [] mode = "warn" -> "warned_by_warn_mode"

C29_TestEnforcementRestoresMode ==
  (lastOp \in TestedOps \cup {"scanned", "enforced_scanned"}) =>
     getEnforcementMode(policy) = EffectiveMode(official)

\* C29 happens: the file's gdpr section had no mode, a test call ran under
\* a temporary mode, threw, and the finally block wrote back "monitor"
C29_Witness ==
  /\ lastOp = "tested_500"
  /\ official.present
  /\ official.mode = Undefined
  /\ policy.gdpr.mode = "monitor"

------------------------------------------------------------------------------
(* Properties of the proxy, under SpecServer *)

\* C22: no scanText, scanObject or applyEnforcement call observes a
\* partially updated policy: every scan of every exchange ran on a complete
\* pattern set and on a gdpr section that is either the one before or the
\* one after a POST of the mode endpoint, never the new mode with the old
\* actions.
C22_NoTornPolicyObserved ==
  \A r \in inflight : r.consistent

\* C22 happens: a POST that carries a mode and actions has done both its
\* writes, and an exchange was decided under the policy it left
C22_Witness ==
  /\ running = NoHandler
  /\ policy.gdpr = [present |-> TRUE, mode |-> "block",
                    actions |-> [NoActions EXCEPT !.on_high = "warn"]]
  /\ \E r \in inflight :
        /\ r.pc = "rejected"
        /\ r.decidedMode = "block"
        /\ r.consistent

\* C24: a request whose decision is action=block is answered 403 and never
\* forwarded: next() is not called for it and nothing of its body is
\* written upstream, whatever the other exchanges do meanwhile.
C24_BlockedNeverForwarded ==
  \A r \in inflight :
     r.enforcementResult.action = "block" =>
        /\ r.pc = "rejected"
        /\ r.status = 403
        /\ r.upstream = Null
        /\ r.delivered = Null

\* C24 happens: one request is blocked while the body of another one has
\* been written upstream
C24_Witness ==
  \E r \in inflight, other \in inflight :
     /\ r.pc = "rejected"
     /\ r.enforcementResult.blockReason # Null
     /\ other.upstream # Null

\* C25: when the decision has modified=true, the body written upstream is
\* the serialized sanitizedData, and the original raw body, which holds the
\* detected PII, is never written upstream for that request.
C25_SanitizedBodyGoesUpstream ==
  \A r \in inflight :
     (r.enforcementResult.modified /\ r.upstream # Null) =>
        /\ r.upstream = Some(Stringify(r.heap[r.enforcementResult.sanitizedData]))
        /\ r.upstream # Some(r.raw)

\* what does hold: whatever is written upstream for a request with
\* modified=true is the serialization of its sanitizedData
UpstreamIsSerializedSanitizedData ==
  \A r \in inflight :
     (r.enforcementResult.modified /\ r.upstream # Null) =>
        r.upstream = Some(Stringify(r.heap[r.enforcementResult.sanitizedData]))

\* C26: every AI response body that is scanned and found to hold violations
\* is passed to applyEnforcement, and the resulting action is applied
\* before the response is delivered to the client.
C26_ResponsesAreEnforced ==
  \A r \in inflight :
     (r.pc = "answered" /\ r.responseViolations # <<>>) =>
        /\ r.responseEnforcement # NoResult
        /\ r.responseEnforcement.action = "block" => r.delivered = Null

\* C30: the enforcement mode stored with a persisted enforcement record is
\* the mode under which the decision was made, also when the mode was
\* changed between the decision and the finish event.
C30_RecordHoldsDecisionMode ==
  \A r \in inflight :
     r.log # NoRecord => r.log.enforcementMode = r.log.decidedMode

====
